---- MODULE Spec2Model ----
(***************************************************************************)
(* A model of the bmdse Speed Editor driver: the report codec and the      *)
(* authentication handshake of src/src/driver.rs, and the poller thread    *)
(* and the shared, mutex-guarded Inner state of src/src/lib.rs.            *)
(*                                                                         *)
(* 64-bit values are kept as sequences of 8 bytes, least significant byte  *)
(* first, so that no arithmetic leaves the range of the model checker's    *)
(* integers.                                                                *)
(***************************************************************************)
EXTENDS Integers, Sequences, FiniteSets, TLC

\* ------------------------------------------------------------------ bounds

\* How many times the clock may advance in one behaviour.
MaxTicks == 2

\* ------------------------------------------------------- program constants

\* The re-authentication interval the poller starts with.
DefaultAuthTime == 600

\* The safety margin subtracted from the interval.
AuthMargin == 5

\* The length of a feature report buffer.
FeatureLen == 10

\* ------------------------------------------------------------ byte helpers

RECURSIVE BitXor(_, _)
\* The bitwise exclusive or of two naturals below 2^31.
BitXor(a, b) ==
    IF a = 0 THEN b
    ELSE IF b = 0 THEN a
    ELSE ((a + b) % 2) + 2 * BitXor(a \div 2, b \div 2)

RECURSIVE BitAnd(_, _)
\* The bitwise and of two naturals below 2^31.
BitAnd(a, b) ==
    IF a = 0 \/ b = 0 THEN 0
    ELSE ((a % 2) * (b % 2)) + 2 * BitAnd(a \div 2, b \div 2)

\* u64 ^ u64 on little-endian byte sequences.
Xor64(x, y) == [i \in 1..8 |-> BitXor(x[i], y[i])]

\* u64 & u64 on little-endian byte sequences.
And64(x, y) == [i \in 1..8 |-> BitAnd(x[i], y[i])]

\* u64::rotate_right(8): byte i of the result is byte i+1 of the argument.
RotateRight8(v) == [i \in 1..8 |-> v[(i % 8) + 1]]

RECURSIVE ror8n(_, _)
\* The closure ror8n of bmd_kbd_auth: n applications of rotate_right(8).
ror8n(v, n) == IF n = 0 THEN v ELSE ror8n(RotateRight8(v), n - 1)

\* u16::from_le_bytes.
U16FromLe(lo, hi) == lo + 256 * hi

\* i32::from_le_bytes: the top byte carries the sign.
I32FromLe(b0, b1, b2, b3) ==
    b0 + 256 * b1 + 65536 * b2
       + 16777216 * (IF b3 >= 128 THEN b3 - 256 ELSE b3)

\* u32::to_le_bytes, for the masks of the LED enumerations (all below 2^18).
U32ToLe(x) ==
    << x % 256, (x \div 256) % 256, (x \div 65536) % 256, (x \div 16777216) % 256 >>

\* Vec::contains.
Contains(s, x) == \E i \in 1..Len(s) : s[i] = x

\* -------------------------------------------------------- bmd_kbd_auth

AUTH_EVEN_TBL ==
    << <<200, 11, 193, 151, 111, 32, 225, 58>>,   \* 0x3ae1206f97c10bc8
       <<198, 68, 242, 235, 43, 179, 154, 42>>,   \* 0x2a9ab32bebf244c6
       <<10, 223, 154, 223, 184, 248, 166, 32>>,  \* 0x20a6f8b8df9adf0a
       <<25, 23, 252, 44, 229, 236, 128, 175>>,   \* 0xaf80ece52cfc1719
       <<81, 209, 79, 65, 247, 226, 46, 236>>,    \* 0xec2ee2f7414fd151
       <<21, 74, 52, 115, 253, 173, 85, 176>>,    \* 0xb055adfd73344a15
       <<135, 17, 0, 89, 48, 46, 61, 166>>,       \* 0xa63d2e3059001187
       <<222, 13, 46, 244, 35, 246, 27, 117>> >>  \* 0x751bf623f42e0dde

AUTH_ODD_TBL ==
    << <<222, 127, 46, 80, 79, 179, 34, 62>>,     \* 0x3e22b34f502e7fde
       <<28, 171, 117, 24, 152, 107, 101, 36>>,   \* 0x24656b981875ab1c
       <<195, 248, 123, 223, 86, 52, 127, 161>>,  \* 0xa17f3456df7bf8c3
       <<152, 246, 174, 65, 25, 46, 247, 109>>,   \* 0x6df72e1941aef698
       <<148, 171, 102, 30, 1, 111, 34, 114>>,    \* 0x72226f011e66ab94
       <<66, 107, 41, 6, 198, 163, 49, 56>>,      \* 0x3831a3c606296b42
       <<137, 44, 51, 129, 24, 248, 127, 253>>,   \* 0xfd7ff81881332c89
       <<198, 54, 242, 79, 71, 246, 163, 97>> >>  \* 0x61a3f6474ff236c6

\* 0xa79a63f585d37bf0
MASK == <<240, 123, 211, 133, 245, 99, 154, 167>>

\* (0x78 >> n) & 1
Bit78(n) == IF n \in {3, 4, 5, 6} THEN 1 ELSE 0

\* bmd_kbd_auth with the else branch left out: the key always from the even
\* table and v never folded.
bmd_kbd_auth_EvenOnly(challenge) ==
    LET n  == challenge[1] % 8
        v  == ror8n(challenge, n)
    IN  Xor64(Xor64(v, And64(RotateRight8(v), MASK)), AUTH_EVEN_TBL[n + 1])

\* bmd_kbd_auth(challenge), challenge and result as 8 little-endian bytes.
bmd_kbd_auth(challenge) ==
    LET n  == challenge[1] % 8
        v0 == ror8n(challenge, n)
        even == (v0[1] % 2) = Bit78(n)
        v  == IF even THEN v0 ELSE Xor64(v0, RotateRight8(v0))
        k  == IF even THEN AUTH_EVEN_TBL[n + 1] ELSE AUTH_ODD_TBL[n + 1]
    IN  Xor64(Xor64(v, And64(RotateRight8(v), MASK)), k)

\* ------------------------------------------------------------ report codec

\* impl TryFrom<u16> for Button: the button of a wire code, "Err" for a code
\* that is not mapped.
ButtonTryFrom(value) ==
    CASE value = 1 -> "SmartInsert"
      [] value = 2 -> "Append"
      [] value = 3 -> "RippleOverwrite"
      [] value = 4 -> "CloseUp"
      [] value = 5 -> "PlaceOnTop"
      [] value = 6 -> "SourceOverwrite"
      [] value = 7 -> "In"
      [] value = 8 -> "Out"
      [] value = 9 -> "TrimIn"
      [] value = 10 -> "TrimOut"
      [] value = 11 -> "Roll"
      [] value = 12 -> "SlipSource"
      [] value = 13 -> "SlipDestination"
      [] value = 14 -> "TransitionDuration"
      [] value = 15 -> "Cut"
      [] value = 16 -> "Dissolve"
      [] value = 17 -> "SmoothCut"
      [] value = 49 -> "Escape"
      [] value = 31 -> "SyncBin"
      [] value = 44 -> "AudioLevel"
      [] value = 45 -> "FullView"
      [] value = 34 -> "Transition"
      [] value = 47 -> "Split"
      [] value = 46 -> "Snap"
      [] value = 43 -> "RippleDelete"
      [] value = 51 -> "Cam1"
      [] value = 52 -> "Cam2"
      [] value = 53 -> "Cam3"
      [] value = 54 -> "Cam4"
      [] value = 55 -> "Cam5"
      [] value = 56 -> "Cam6"
      [] value = 57 -> "Cam7"
      [] value = 58 -> "Cam8"
      [] value = 59 -> "Cam9"
      [] value = 48 -> "LiveOverwrite"
      [] value = 37 -> "VideoOnly"
      [] value = 38 -> "AudioOnly"
      [] value = 60 -> "StopPlay"
      [] value = 26 -> "Source"
      [] value = 27 -> "Timeline"
      [] value = 28 -> "Shuttle"
      [] value = 29 -> "Jog"
      [] value = 30 -> "Scroll"
      [] OTHER -> "Err"

\* impl TryFrom<u8> for WheelMode; 0x00 and 0x02 are both Relative.
WheelModeTryFrom(value) ==
    CASE value = 0 -> "Relative"
      [] value = 1 -> "AbsoluteContinuous"
      [] value = 2 -> "Relative"
      [] value = 3 -> "AbsoluteDeadZero"
      [] OTHER -> "Err"

\* The discriminant of a ButtonLed (led as u32).
ButtonLedMask(led) ==
    CASE led = "Off" -> 0
      [] led = "CloseUp" -> 1
      [] led = "Cut" -> 2
      [] led = "Dissolve" -> 4
      [] led = "SmoothCut" -> 8
      [] led = "Transition" -> 16
      [] led = "Snap" -> 32
      [] led = "Cam7" -> 64
      [] led = "Cam8" -> 128
      [] led = "Cam9" -> 256
      [] led = "LiveOverwrite" -> 512
      [] led = "Cam4" -> 1024
      [] led = "Cam5" -> 2048
      [] led = "Cam6" -> 4096
      [] led = "VideoOnly" -> 8192
      [] led = "Cam1" -> 16384
      [] led = "Cam2" -> 32768
      [] led = "Cam3" -> 65536
      [] led = "AudioOnly" -> 131072

\* The discriminant of a WheelLed (led as u8).
WheelLedMask(led) ==
    CASE led = "Off" -> 0
      [] led = "Jog" -> 1
      [] led = "Shuttle" -> 2
      [] led = "Scroll" -> 4

\* A decoded report, or the error of a failed decode (kind "Err"), or no
\* report at all (kind "None").
Rep(kind, mode, value, buttons, charging, level) ==
    [kind |-> kind, mode |-> mode, value |-> value, buttons |-> buttons,
     charging |-> charging, level |-> level]

ErrReport == Rep("Err", "", 0, <<>>, FALSE, 0)

NoReport == Rep("None", "", 0, <<>>, FALSE, 0)

\* DecodeButtons with a slot that maps to no button skipped.
RECURSIVE DecodeButtons_SkipUnknown(_, _, _)
DecodeButtons_SkipUnknown(bytes, i, acc) ==
    IF i > 6 THEN Rep("Buttons", "", 0, acc, FALSE, 0)
    ELSE LET val == U16FromLe(bytes[2 * i], bytes[2 * i + 1])
         IN  IF val = 0 \/ ButtonTryFrom(val) = "Err"
             THEN DecodeButtons_SkipUnknown(bytes, i + 1, acc)
             ELSE DecodeButtons_SkipUnknown(bytes, i + 1,
                                            Append(acc, ButtonTryFrom(val)))

\* DecodeButtons with a button pushed only when the list does not hold it.
RECURSIVE DecodeButtons_Dedup(_, _, _)
DecodeButtons_Dedup(bytes, i, acc) ==
    IF i > 6 THEN Rep("Buttons", "", 0, acc, FALSE, 0)
    ELSE LET val == U16FromLe(bytes[2 * i], bytes[2 * i + 1])
         IN  IF val = 0 THEN DecodeButtons_Dedup(bytes, i + 1, acc)
             ELSE IF ButtonTryFrom(val) = "Err" THEN ErrReport
             ELSE IF Contains(acc, ButtonTryFrom(val))
             THEN DecodeButtons_Dedup(bytes, i + 1, acc)
             ELSE DecodeButtons_Dedup(bytes, i + 1, Append(acc, ButtonTryFrom(val)))

RECURSIVE DecodeButtons(_, _, _)
\* The loop over bytes[1..13].chunks(2): slot i of six, acc the buttons pushed
\* so far.  A slot that maps to no button fails the whole decode.
DecodeButtons(bytes, i, acc) ==
    IF i > 6 THEN Rep("Buttons", "", 0, acc, FALSE, 0)
    ELSE LET val == U16FromLe(bytes[2 * i], bytes[2 * i + 1])
         IN  IF val = 0 THEN DecodeButtons(bytes, i + 1, acc)
             ELSE IF ButtonTryFrom(val) = "Err" THEN ErrReport
             ELSE DecodeButtons(bytes, i + 1, Append(acc, ButtonTryFrom(val)))

\* BatteryCharging with every non-zero byte taken as charging.
BatteryCharging_NonZero(b) == b # 0

\* The charging flag of a battery report: bytes[1] == 0x01.
BatteryCharging(b) == b = 1

\* impl TryFrom<&[u8]> for Report.
ReportTryFrom(bytes) ==
    IF Len(bytes) = 0 THEN ErrReport
    ELSE CASE bytes[1] = 3 ->
                IF Len(bytes) # 7 THEN ErrReport
                ELSE IF WheelModeTryFrom(bytes[2]) = "Err" THEN ErrReport
                ELSE Rep("Wheel", WheelModeTryFrom(bytes[2]),
                         I32FromLe(bytes[3], bytes[4], bytes[5], bytes[6]),
                         <<>>, FALSE, 0)
           [] bytes[1] = 4 ->
                IF Len(bytes) # 13 THEN ErrReport
                ELSE DecodeButtons(bytes, 1, <<>>)
           [] bytes[1] = 7 ->
                IF Len(bytes) # 3 THEN ErrReport
                ELSE Rep("Battery", "", 0, <<>>, BatteryCharging(bytes[2]), bytes[3])
           [] OTHER -> ErrReport

\* The buffer driver::set_button_led writes.
ButtonLedBuf(led) == <<2>> \o U32ToLe(ButtonLedMask(led))

\* The buffer driver::set_wheel_led writes.
WheelLedBuf(led) == <<4, WheelLedMask(led)>>

\* ------------------------------------------------- the modelled environment

\* The keyboard challenges the device may present.
Challenges == { <<1, 2, 3, 4, 5, 6, 7, 8>>, <<11, 0, 0, 0, 9, 0, 0, 0>> }

\* The re-authentication intervals the device may report, in seconds.
Intervals == {600, 10, 3}

\* What a GET_FEATURE on report 6 may return: a challenge, the keyboard's
\* response marker, a status with an interval, and a short read.
FeatureReplies ==
    { <<6, 0>> \o c : c \in Challenges }
    \cup { <<6, 2, 0, 0, 0, 0, 0, 0, 0, 0>> }
    \cup { <<6, 4, v % 256, v \div 256, 0, 0, 0, 0, 0, 0>> : v \in Intervals }
    \cup { <<6, 0, 1>> }

\* What it may return to a session whose handshake is under study: also a
\* keyboard response with another payload, and a status cut off after its
\* interval.
HandshakeReplies ==
    FeatureReplies
    \cup { <<6, 2, 9, 8, 7, 6, 5, 4, 3, 2>>, <<6, 4, 88, 2>> }

\* Keyboard challenges for a handshake whose response is under study: two for
\* each value of the low three bits, one with the low bit of the rotated
\* value clear and one with it set.
AuthChallenges ==
    { <<0, 74, 111, 148, 185, 222, 3, 40>>,
      <<8, 77, 114, 151, 188, 225, 6, 43>>,
      <<1, 174, 212, 249, 30, 67, 104, 141>>,
      <<9, 179, 215, 252, 33, 70, 107, 144>>,
      <<2, 20, 56, 94, 131, 168, 205, 242>>,
      <<10, 23, 61, 97, 134, 171, 208, 245>>,
      <<3, 121, 158, 194, 232, 13, 50, 87>>,
      <<11, 124, 161, 199, 235, 16, 53, 90>>,
      <<4, 222, 3, 40, 76, 114, 151, 188>>,
      <<12, 225, 6, 43, 81, 117, 154, 191>>,
      <<5, 67, 104, 141, 178, 214, 252, 33>>,
      <<13, 70, 107, 144, 181, 219, 255, 36>>,
      <<6, 168, 205, 242, 23, 60, 96, 134>>,
      <<14, 171, 208, 245, 26, 63, 101, 137>>,
      <<7, 13, 50, 87, 124, 161, 198, 234>>,
      <<15, 16, 53, 90, 127, 164, 201, 239>> }

\* What a GET_FEATURE on report 6 may return to that handshake: one of these
\* challenges, the keyboard's response marker, and a status.
ChallengeReplies ==
    { <<6, 0>> \o c : c \in AuthChallenges }
    \cup { <<6, 2, 0, 0, 0, 0, 0, 0, 0, 0>>, <<6, 4, 88, 2, 0, 0, 0, 0, 0, 0>> }

\* The outcome of a transport call that returns bytes.
IoResult(ok, data) == [ok |-> ok, data |-> data]

\* What read_timeout may deliver: nothing within the timeout, wheel, button
\* and battery reports, and buffers that do not decode.
ReadSamples ==
    { <<>>,
      <<3, 0, 5, 0, 0, 0, 0>>,
      <<3, 1, 5, 0, 0, 0, 0>>,
      <<3, 9, 5, 0, 0, 0, 0>>,
      <<4, 1, 0, 2, 0, 0, 0, 0, 0, 0, 0, 0, 0>>,
      <<4, 2, 0, 3, 0, 0, 0, 0, 0, 0, 0, 0, 0>>,
      <<4, 0, 0, 0, 0, 0, 0, 0, 0, 0, 0, 0, 0>>,
      <<4, 18, 0, 1, 0, 0, 0, 0, 0, 0, 0, 0, 0>>,
      <<4, 1, 0>>,
      <<7, 1, 100>>,
      <<9, 1>> }

\* What read_timeout may deliver to a session whose dispatch is under study:
\* wheel reports in each mode and with a negative value, battery reports with
\* each kind of charging byte and level, and button reports, one of them with
\* the same code in two slots.
DispatchSamples ==
    { <<>>,
      <<3, 0, 5, 0, 0, 0, 0>>,
      <<3, 2, 251, 255, 255, 255, 0>>,
      <<3, 1, 5, 0, 0, 0, 0>>,
      <<3, 3, 5, 0, 0, 0, 0>>,
      <<3, 9, 5, 0, 0, 0, 0>>,
      <<4, 1, 0, 2, 0, 0, 0, 0, 0, 0, 0, 0, 0>>,
      <<4, 2, 0, 0, 0, 2, 0, 0, 0, 0, 0, 0, 0>>,
      <<4, 0, 0, 0, 0, 0, 0, 0, 0, 0, 0, 0, 0>>,
      <<7, 1, 100>>,
      <<7, 0, 55>>,
      <<7, 2, 200>>,
      <<7, 1>> }

\* The six slots of a button report, as bytes.
SlotBytes(c) ==
    << c[1] % 256, c[1] \div 256, c[2] % 256, c[2] \div 256,
       c[3] % 256, c[3] \div 256, c[4] % 256, c[4] \div 256,
       c[5] % 256, c[5] \div 256, c[6] % 256, c[6] \div 256 >>

\* The codes in the first three slots of the button reports given to the
\* decoder: none, two buttons, and two codes of no button (0x0012, 0x0101).
LowSlotCodes == {0, 1, 2, 18, 257}

\* The codes in its last three slots: none and StopPlay.
HighSlotCodes == {0, 60}

\* The buffers given to Report::try_from: button reports with every choice of
\* the codes above, button reports that are too short and too long, and
\* what the poller reads otherwise.
DecodeInputs ==
    { <<4>> \o SlotBytes(<<a, b, c, d, e, f>>) :
        a \in LowSlotCodes, b \in LowSlotCodes, c \in LowSlotCodes,
        d \in HighSlotCodes, e \in HighSlotCodes, f \in HighSlotCodes }
    \cup { <<4>>,
           <<4, 1, 0, 2, 0, 0, 0, 0, 0, 0, 0, 0>>,
           <<4, 1, 0, 2, 0, 0, 0, 0, 0, 0, 0, 0, 0, 0>> }
    \cup (DispatchSamples \ {<<>>})

\* The callbacks the application registers.
Callbacks == {"f1"}

\* The callbacks of an application that registers a second callback over a
\* first one.
TwoCallbacks == {"f1", "f2"}

\* The callbacks of an application one of whose callbacks calls back into the
\* SpeedEditor.
ReentryCallbacks == {"f1", "reenter"}

\* Whether the body of callback f calls a method of the SpeedEditor, each of
\* which starts with inner.lock().
Reenters(f) == f = "reenter"

\* The LED targets the application sets.
AppButtonLeds == {"Off", "Cam1"}

AppWheelLeds == {"Off", "Jog"}

\* The steps by which the clock advances, in seconds.
TickSteps == {1, 594}

\* ------------------------------------------------------------------- state

VARIABLES
    \* struct Inner, behind the mutex
    pressed_buttons, button_led, wheel_led,
    on_wheel_change, on_button_change, on_battery_info,
    \* who holds the mutex: "free" or "poller"
    lock,
    \* the poller thread: its position and its locals
    pc, initial_auth, auth_step, challenge, auth_time,
    last_button_led, last_wheel_led,
    report, prev_pressed, cb_ref, pending,
    \* the device and the clock
    elapsed, ticks, closed, dev_button_led, dev_wheel_led,
    \* what the poller has done in the current iteration
    io_log, calls,
    \* history of the run
    auth_failed, last_auth_elapsed, last_interval, reauth_triggered,
    latest_buttons, b_writes, w_writes, polled_closed,
    \* the callback each setter was last called with, and the one it replaced
    last_set, replaced,
    \* the outcome of SpeedEditor::new
    session,
    \* a buffer handed to Report::try_from, and what it returned
    dec_bytes, dec_result

inner_vars == <<pressed_buttons, button_led, wheel_led,
                on_wheel_change, on_button_change, on_battery_info>>

poller_vars == <<pc, initial_auth, auth_step, challenge, auth_time,
                 last_button_led, last_wheel_led,
                 report, prev_pressed, cb_ref, pending>>

env_vars == <<elapsed, ticks, closed, dev_button_led, dev_wheel_led>>

hist_vars == <<io_log, calls, auth_failed, last_auth_elapsed, last_interval,
               reauth_triggered, latest_buttons, b_writes, w_writes,
               polled_closed, last_set, replaced>>

codec_vars == <<dec_bytes, dec_result>>

vars == <<inner_vars, lock, poller_vars, env_vars, hist_vars, session,
          codec_vars>>

\* One callback slot for each event class, all empty.
NoCallbacks == [wheel |-> "None", button |-> "None", battery |-> "None"]

\* The callback cb of an event class, dropped by a setter that stored another.
Replaced(class, cb) == [class |-> class, cb |-> cb]

NoneReplaced == Replaced("", "None")

\* SpeedEditor::new has returned: Inner holds its defaults and the poller
\* thread is about to run its first handshake.
SessionInit ==
    /\ pressed_buttons = <<>>
    /\ button_led = "Off"
    /\ wheel_led = "Off"
    /\ on_wheel_change = "None"
    /\ on_button_change = "None"
    /\ on_battery_info = "None"
    /\ lock = "free"
    /\ pc = "authenticate"
    /\ initial_auth = TRUE
    /\ auth_step = 1
    /\ challenge = <<>>
    /\ auth_time = DefaultAuthTime
    /\ last_button_led = "None"
    /\ last_wheel_led = "None"
    /\ report = NoReport
    /\ prev_pressed = <<>>
    /\ cb_ref = "None"
    /\ pending = <<>>
    /\ elapsed = 0
    /\ ticks = 0
    /\ closed = FALSE
    /\ dev_button_led = <<>>
    /\ dev_wheel_led = <<>>
    /\ io_log = <<>>
    /\ calls = <<>>
    /\ auth_failed = FALSE
    /\ last_auth_elapsed = 0
    /\ last_interval = 0
    /\ reauth_triggered = FALSE
    /\ latest_buttons = <<>>
    /\ b_writes = 0
    /\ w_writes = 0
    /\ polled_closed = FALSE
    /\ last_set = NoCallbacks
    /\ replaced = NoneReplaced
    /\ session = "Ok"

\* The session after SpeedEditor::new, with no buffer given to the decoder.
Init ==
    /\ SessionInit
    /\ dec_bytes = <<>>
    /\ dec_result = NoReport

\* The value of a field of Inner while no Inner exists.
Unallocated == "Unallocated"

\* Before SpeedEditor::new is called: there is no Inner, no thread and no
\* session handle.
InitNew ==
    /\ pressed_buttons = Unallocated
    /\ button_led = Unallocated
    /\ wheel_led = Unallocated
    /\ on_wheel_change = Unallocated
    /\ on_button_change = Unallocated
    /\ on_battery_info = Unallocated
    /\ lock = "free"
    /\ pc = "unspawned"
    /\ initial_auth = TRUE
    /\ auth_step = 1
    /\ challenge = <<>>
    /\ auth_time = DefaultAuthTime
    /\ last_button_led = "None"
    /\ last_wheel_led = "None"
    /\ report = NoReport
    /\ prev_pressed = <<>>
    /\ cb_ref = "None"
    /\ pending = <<>>
    /\ elapsed = 0
    /\ ticks = 0
    /\ closed = FALSE
    /\ dev_button_led = <<>>
    /\ dev_wheel_led = <<>>
    /\ io_log = <<>>
    /\ calls = <<>>
    /\ auth_failed = FALSE
    /\ last_auth_elapsed = 0
    /\ last_interval = 0
    /\ reauth_triggered = FALSE
    /\ latest_buttons = <<>>
    /\ b_writes = 0
    /\ w_writes = 0
    /\ polled_closed = FALSE
    /\ last_set = NoCallbacks
    /\ replaced = NoneReplaced
    /\ session = "None"
    /\ dec_bytes = <<>>
    /\ dec_result = NoReport

\* One transport call in io_log.
IoOp(op, data, ok) == [op |-> op, data |-> data, ok |-> ok]

\* Whether a transport call may succeed: never on a closed handle.
IoOutcomes == IF closed THEN {FALSE} ELSE BOOLEAN

\* What get_feature_report may return, for the replies a device may give.
GetResultsOf(replies) ==
    {IoResult(FALSE, <<>>)}
    \cup (IF closed THEN {} ELSE {IoResult(TRUE, d) : d \in replies})

\* What get_feature_report may return.
GetResults == GetResultsOf(FeatureReplies)

\* What read_timeout may return, for the buffers a device may deliver.
ReadResultsOf(samples) ==
    {IoResult(FALSE, <<>>)}
    \cup (IF closed THEN {} ELSE {IoResult(TRUE, d) : d \in samples})

\* What read_timeout may return.
ReadResults == ReadResultsOf(ReadSamples)

Min(a, b) == IF a < b THEN a ELSE b

\* ------------------------------------------------------------ the decoder

\* A buffer is about to be given to Report::try_from.
InitDecode ==
    /\ SessionInit
    /\ dec_bytes \in DecodeInputs
    /\ dec_result = NoReport

\* Report::try_from(dec_bytes) returns.
Decode ==
    /\ dec_result = NoReport
    /\ dec_result' = ReportTryFrom(dec_bytes)
    /\ UNCHANGED <<inner_vars, lock, poller_vars, env_vars, hist_vars,
                   session, dec_bytes>>

\* A call of Report::try_from on each of the buffers of DecodeInputs.
DecodeNext == Decode

SpecDecode == InitDecode /\ [][DecodeNext]_vars

\* ----------------------------------------------------------- SpeedEditor::new

\* What SpeedEditor::new returns: the error of HidApi::new or of api.open
\* (get_hid_device), the error of the thread spawn, or the session.
NewResult(api_ok, open_ok, spawn_ok) ==
    IF ~api_ok THEN "HidApiAlreadyInitialized"
    ELSE IF ~open_ok THEN "CannotOpenHidDevice"
    ELSE IF ~spawn_ok THEN "Io"
    ELSE "Ok"

\* SpawnsPoller with the thread started whatever get_hid_device returned.
SpawnsPoller_Always(result) == TRUE

\* Whether new has started the poller thread: spawn comes after the ? on
\* get_hid_device and is the last call that can fail.
SpawnsPoller(result) == result = "Ok"

\* ButtonLed::default() and WheelLed::default().
ButtonLedDefault == "Off"

WheelLedDefault == "Off"

\* SpeedEditor::new.  A failed call drops the Inner it made.
New ==
    /\ session = "None"
    /\ \E api_ok, open_ok, spawn_ok \in BOOLEAN :
         LET result == NewResult(api_ok, open_ok, spawn_ok)
         IN  /\ session' = result
             /\ pc' = IF SpawnsPoller(result) THEN "authenticate" ELSE pc
             /\ IF result = "Ok"
                THEN /\ pressed_buttons' = <<>>
                     /\ button_led' = ButtonLedDefault
                     /\ wheel_led' = WheelLedDefault
                     /\ on_wheel_change' = "None"
                     /\ on_button_change' = "None"
                     /\ on_battery_info' = "None"
                ELSE UNCHANGED inner_vars
    /\ UNCHANGED <<lock, initial_auth, auth_step, challenge, auth_time,
                 last_button_led, last_wheel_led, report, prev_pressed,
                 cb_ref, pending, elapsed, ticks, closed, dev_button_led,
                 dev_wheel_led, io_log, calls, auth_failed,
                 last_auth_elapsed, last_interval, reauth_triggered,
                 latest_buttons, b_writes, w_writes, polled_closed,
                 last_set, replaced, dec_bytes, dec_result>>

\* ------------------------------------------------------------ authenticate

\* The feature report authenticate sends at step 1, 3 or 5.
AuthSendBuf(step) ==
    CASE step = 1 -> <<6, 0, 0, 0, 0, 0, 0, 0, 0, 0>>
      [] step = 3 -> <<6, 1, 0, 0, 0, 0, 0, 0, 0, 0>>
      [] step = 5 -> <<6, 3>> \o bmd_kbd_auth(challenge)

\* The sub-command byte authenticate expects in the reply of step 2, 4 or 6.
AuthExpect(step) ==
    CASE step = 2 -> 0
      [] step = 4 -> 2
      [] step = 6 -> 4

\* HeaderOk with the length tested against the four bytes that the last step
\* reads.
HeaderOk_FourBytes(data, sub) ==
    /\ Len(data) >= 4
    /\ data[1] = 6
    /\ data[2] = sub

\* HeaderOk without the comparison of the sub-command byte.
HeaderOk_AnySub(data, sub) ==
    /\ Len(data) >= FeatureLen
    /\ data[1] = 6

\* The checks authenticate makes of a feature reply: at least 10 bytes, and
\* the header [0x06, sub].
HeaderOk(data, sub) ==
    /\ Len(data) >= FeatureLen
    /\ data[1] = 6
    /\ data[2] = sub

\* OnAuthError with the handshake tried again by the loop.
OnAuthError_Retry == "loop_top"

\* Where the poller goes when authenticate returns an error: the ? operator
\* returns from poller, which ends the thread.
OnAuthError == "stopped"

\* OnLedError with the error of the write dropped.
OnLedError_Ignored == "led_unlock"

\* Where the poller goes when a LED write returns an error: the ? operator
\* again.
OnLedError == "stopped"

\* GuardOnLedError with a guard that the error leaves behind: the mutex stays
\* out of reach of the application.
GuardOnLedError_Kept == "poller"

\* The lock after a LED write returned an error: ? returns from poller, which
\* drops inner_guard on the way out; nothing has panicked, so the mutex is
\* not poisoned either.
GuardOnLedError == "free"

\* OnPollError with the error passed on by ?.
OnPollError_Fatal == "stopped"

\* Where the poller goes when poll returns an error: yield_now and continue.
OnPollError == "loop_top"

\* AfterAuthCheck with the LED block skipped: the poll comes next.
AfterAuthCheck_Poll == "poll"

\* What follows the re-authentication check of lines 243-245 in an iteration:
\* the LED block of lines 247-257.
AfterAuthCheck == "led_lock"

\* authenticate, steps 1, 3 and 5: one send_feature_report.  An error ends
\* the attempt and, through the ? of the caller, the poller.
AuthSend ==
    /\ pc = "authenticate"
    /\ auth_step \in {1, 3, 5}
    /\ \E ok \in IoOutcomes :
         /\ io_log' = Append(io_log, IoOp("send_feature_report", AuthSendBuf(auth_step), ok))
         /\ IF ok
            THEN /\ auth_step' = auth_step + 1
                 /\ UNCHANGED <<pc, challenge, auth_failed>>
            ELSE /\ pc' = OnAuthError
                 /\ auth_step' = 0
                 /\ challenge' = <<>>
                 /\ auth_failed' = TRUE
    /\ UNCHANGED <<pressed_buttons, button_led, wheel_led, on_wheel_change,
                 on_button_change, on_battery_info, lock, initial_auth,
                 auth_time, last_button_led, last_wheel_led, report,
                 prev_pressed, cb_ref, pending, elapsed, ticks, closed,
                 dev_button_led, dev_wheel_led, calls, last_auth_elapsed,
                 last_interval, reauth_triggered, latest_buttons, b_writes,
                 w_writes, polled_closed,
                 session, dec_bytes, dec_result, last_set, replaced>>

\* authenticate, steps 2, 4 and 6: one get_feature_report and the checks of
\* its reply.  Step 2 keeps the challenge; step 6 returns the interval, which
\* the poller drops after the first handshake (lib.rs line 240) and stores in
\* auth_time after a periodic one (line 244).
AuthGetWith(results) ==
    /\ pc = "authenticate"
    /\ auth_step \in {2, 4, 6}
    /\ \E r \in results :
         /\ io_log' = Append(io_log, IoOp("get_feature_report", r.data, r.ok))
         /\ IF r.ok /\ HeaderOk(r.data, AuthExpect(auth_step))
            THEN /\ auth_failed' = auth_failed
                 /\ IF auth_step = 6
                    THEN /\ auth_step' = 0
                         /\ challenge' = <<>>
                         /\ initial_auth' = FALSE
                         /\ auth_time' = IF initial_auth THEN auth_time
                                         ELSE U16FromLe(r.data[3], r.data[4])
                         /\ pc' = IF initial_auth THEN "loop_top" ELSE AfterAuthCheck
                         /\ last_auth_elapsed' = elapsed
                         /\ last_interval' = U16FromLe(r.data[3], r.data[4])
                    ELSE /\ auth_step' = auth_step + 1
                         /\ challenge' = IF auth_step = 2 THEN SubSeq(r.data, 3, 10)
                                         ELSE challenge
                         /\ UNCHANGED <<pc, initial_auth, auth_time,
                                        last_auth_elapsed, last_interval>>
            ELSE /\ pc' = OnAuthError
                 /\ auth_step' = 0
                 /\ challenge' = <<>>
                 /\ auth_failed' = TRUE
                 /\ UNCHANGED <<initial_auth, auth_time, last_auth_elapsed,
                                last_interval>>
    /\ UNCHANGED <<pressed_buttons, button_led, wheel_led, on_wheel_change,
                 on_button_change, on_battery_info, lock, last_button_led,
                 last_wheel_led, report, prev_pressed, cb_ref, pending,
                 elapsed, ticks, closed, dev_button_led, dev_wheel_led,
                 calls, reauth_triggered, latest_buttons, b_writes, w_writes,
                 polled_closed,
                 session, dec_bytes, dec_result, last_set, replaced>>

\* A feature read of a device that replies with FeatureReplies.
AuthGet == AuthGetWith(GetResults)

\* A feature read of a device that replies with HandshakeReplies.
AuthGetHandshakeReplies == AuthGetWith(GetResultsOf(HandshakeReplies))

\* A feature read of a device that replies with ChallengeReplies.
AuthGetChallengeReplies == AuthGetWith(GetResultsOf(ChallengeReplies))

\* ------------------------------------------------------------------ poller

\* The value of (auth_time - 5) as u64 of line 243, a u16 subtraction.  Below
\* 5 it overflows: with overflow checks off the difference wraps, with them on
\* the thread panics, written here as the threshold -1.
AuthThresholds(t) ==
    IF t >= AuthMargin THEN {t - AuthMargin}
    ELSE {t - AuthMargin + 65536, -1}

\* The test of line 243 against a threshold th.
AuthDue(th) == elapsed >= th

\* The top of the loop (line 243): re-authenticate when it is due.  A new
\* iteration starts, and what the last one logged is dropped.
LoopTop ==
    /\ pc = "loop_top"
    /\ io_log' = <<>>
    /\ calls' = <<>>
    /\ report' = NoReport
    /\ prev_pressed' = <<>>
    /\ cb_ref' = "None"
    /\ \E th \in AuthThresholds(auth_time) :
         IF th = -1
         THEN pc' = "panicked" /\ UNCHANGED <<auth_step, reauth_triggered>>
         ELSE IF AuthDue(th)
         THEN pc' = "authenticate" /\ auth_step' = 1 /\ reauth_triggered' = TRUE
         ELSE pc' = AfterAuthCheck /\ UNCHANGED <<auth_step, reauth_triggered>>
    /\ UNCHANGED <<pressed_buttons, button_led, wheel_led, on_wheel_change,
                 on_button_change, on_battery_info, lock, initial_auth,
                 challenge, auth_time, last_button_led, last_wheel_led,
                 pending, elapsed, ticks, closed, dev_button_led,
                 dev_wheel_led, auth_failed, last_auth_elapsed,
                 last_interval, latest_buttons, b_writes, w_writes,
                 polled_closed,
                 session, dec_bytes, dec_result, last_set, replaced>>

\* LedChanged with the comparison dropped: push in every iteration.
LedChanged_Always(last_led, target) == TRUE

\* LedChanged with only the first push made.
LedChanged_FirstOnly(last_led, target) == last_led = "None"

\* Option::is_none_or(|last_led| last_led != target) of lines 249 and 253.
LedChanged(last_led, target) == last_led = "None" \/ last_led # target

\* inner.lock() of line 248.
LedLock ==
    /\ pc = "led_lock"
    /\ lock = "free"
    /\ lock' = "poller"
    /\ pc' = "led_button"
    /\ UNCHANGED <<pressed_buttons, button_led, wheel_led, on_wheel_change,
                 on_button_change, on_battery_info, initial_auth, auth_step,
                 challenge, auth_time, last_button_led, last_wheel_led,
                 report, prev_pressed, cb_ref, pending, elapsed, ticks,
                 closed, dev_button_led, dev_wheel_led, io_log, calls,
                 auth_failed, last_auth_elapsed, last_interval,
                 reauth_triggered, latest_buttons, b_writes, w_writes,
                 polled_closed,
                 session, dec_bytes, dec_result, last_set, replaced>>

\* Lines 249-252: push the button LED target when it differs from the last one
\* pushed.  A failed write returns from poller, dropping the guard.
LedButton ==
    /\ pc = "led_button"
    /\ IF LedChanged(last_button_led, button_led)
       THEN \E ok \in IoOutcomes :
              /\ io_log' = Append(io_log, IoOp("write", ButtonLedBuf(button_led), ok))
              /\ b_writes' = Min(b_writes + 1, 2)
              /\ IF ok
                 THEN /\ last_button_led' = button_led
                      /\ dev_button_led' = ButtonLedBuf(button_led)
                      /\ pc' = "led_wheel"
                      /\ lock' = lock
                 ELSE /\ pc' = OnLedError
                      /\ lock' = GuardOnLedError
                      /\ UNCHANGED <<last_button_led, dev_button_led>>
       ELSE /\ pc' = "led_wheel"
            /\ UNCHANGED <<io_log, b_writes, last_button_led, dev_button_led, lock>>
    /\ UNCHANGED <<pressed_buttons, button_led, wheel_led, on_wheel_change,
                 on_button_change, on_battery_info, initial_auth, auth_step,
                 challenge, auth_time, last_wheel_led, report, prev_pressed,
                 cb_ref, pending, elapsed, ticks, closed, dev_wheel_led,
                 calls, auth_failed, last_auth_elapsed, last_interval,
                 reauth_triggered, latest_buttons, w_writes, polled_closed,
                 session, dec_bytes, dec_result, last_set, replaced>>

\* Lines 253-256: the same for the wheel LED.
LedWheel ==
    /\ pc = "led_wheel"
    /\ IF LedChanged(last_wheel_led, wheel_led)
       THEN \E ok \in IoOutcomes :
              /\ io_log' = Append(io_log, IoOp("write", WheelLedBuf(wheel_led), ok))
              /\ w_writes' = Min(w_writes + 1, 2)
              /\ IF ok
                 THEN /\ last_wheel_led' = wheel_led
                      /\ dev_wheel_led' = WheelLedBuf(wheel_led)
                      /\ pc' = "led_unlock"
                      /\ lock' = lock
                 ELSE /\ pc' = OnLedError
                      /\ lock' = GuardOnLedError
                      /\ UNCHANGED <<last_wheel_led, dev_wheel_led>>
       ELSE /\ pc' = "led_unlock"
            /\ UNCHANGED <<io_log, w_writes, last_wheel_led, dev_wheel_led, lock>>
    /\ UNCHANGED <<pressed_buttons, button_led, wheel_led, on_wheel_change,
                 on_button_change, on_battery_info, initial_auth, auth_step,
                 challenge, auth_time, last_button_led, report, prev_pressed,
                 cb_ref, pending, elapsed, ticks, closed, dev_button_led,
                 calls, auth_failed, last_auth_elapsed, last_interval,
                 reauth_triggered, latest_buttons, b_writes, polled_closed,
                 session, dec_bytes, dec_result, last_set, replaced>>

\* The end of the block of lines 247-257: the guard is dropped.
LedUnlock ==
    /\ pc = "led_unlock"
    /\ lock' = "free"
    /\ pc' = "poll"
    /\ UNCHANGED <<pressed_buttons, button_led, wheel_led, on_wheel_change,
                 on_button_change, on_battery_info, initial_auth, auth_step,
                 challenge, auth_time, last_button_led, last_wheel_led,
                 report, prev_pressed, cb_ref, pending, elapsed, ticks,
                 closed, dev_button_led, dev_wheel_led, io_log, calls,
                 auth_failed, last_auth_elapsed, last_interval,
                 reauth_triggered, latest_buttons, b_writes, w_writes,
                 polled_closed,
                 session, dec_bytes, dec_result, last_set, replaced>>

\* driver::poll on the outcome of read_timeout: a read error, an empty read
\* and a buffer that does not decode are all errors.
PollReport(r) ==
    IF ~r.ok THEN ErrReport
    ELSE IF Len(r.data) = 0 THEN ErrReport
    ELSE ReportTryFrom(r.data)

\* Lines 259-265: one poll.  On an error the loop continues with its next
\* iteration.
PollWith(results) ==
    /\ pc = "poll"
    /\ \E r \in results :
         /\ io_log' = Append(io_log, IoOp("read_timeout", r.data, r.ok))
         /\ IF PollReport(r).kind = "Err"
            THEN /\ pc' = OnPollError
                 /\ UNCHANGED <<report, latest_buttons>>
            ELSE /\ pc' = "dispatch"
                 /\ report' = PollReport(r)
                 /\ latest_buttons' = IF PollReport(r).kind = "Buttons"
                                      THEN PollReport(r).buttons
                                      ELSE latest_buttons
    /\ polled_closed' = (polled_closed \/ closed)
    /\ UNCHANGED <<pressed_buttons, button_led, wheel_led, on_wheel_change,
                 on_button_change, on_battery_info, lock, initial_auth,
                 auth_step, challenge, auth_time, last_button_led,
                 last_wheel_led, prev_pressed, cb_ref, pending, elapsed,
                 ticks, closed, dev_button_led, dev_wheel_led, calls,
                 auth_failed, last_auth_elapsed, last_interval,
                 reauth_triggered, b_writes, w_writes,
                 session, dec_bytes, dec_result, last_set, replaced>>

\* One poll of a device that delivers ReadSamples.
Poll == PollWith(ReadResults)

\* One poll of a device that delivers DispatchSamples.
PollDispatchSamples == PollWith(ReadResultsOf(DispatchSamples))

\* One invocation of a user callback.
Call(cb, ev, button, pressed, value, charging, level) ==
    [cb |-> cb, ev |-> ev, button |-> button, pressed |-> pressed,
     value |-> value, charging |-> charging, level |-> level]

ButtonCall(cb, button, pressed) == Call(cb, "button", button, pressed, 0, FALSE, 0)

\* The loop of lines 286-290: false for each button of prev that the new list
\* does not contain.
ReleaseEvents(prev, buttons) ==
    SelectSeq([i \in 1..Len(prev) |-> <<prev[i], FALSE>>],
              LAMBDA e : ~Contains(buttons, e[1]))

\* The loop of lines 293-295: true for each button of the new list.
PressEvents(buttons) == [i \in 1..Len(buttons) |-> <<buttons[i], TRUE>>]

\* ButtonEvents with the two loops in the other order.
ButtonEvents_PressFirst(prev, buttons) ==
    PressEvents(buttons) \o ReleaseEvents(prev, buttons)

\* The (button, pressed) arguments of one Buttons report, in call order.
ButtonEvents(prev, buttons) == ReleaseEvents(prev, buttons) \o PressEvents(buttons)

\* StoredButtons with the store moved inside the if let of line 284.
StoredButtons_IfCallback(prev, buttons) ==
    IF on_button_change = "None" THEN prev ELSE buttons

\* What line 282 stores in pressed_buttons.
StoredButtons(prev, buttons) == buttons

\* ForwardsWheel with the test of the mode dropped.
ForwardsWheel_AnyMode(mode) == TRUE

\* The test of line 269: if let WheelMode::Relative = mode.
ForwardsWheel(mode) == mode = "Relative"

\* ButtonsGuard with the guard dropped once the pressed set is stored, before
\* the callbacks are made.
ButtonsGuard_Dropped == "free"

\* Who holds the lock while the Buttons arm makes its callbacks: the guard of
\* line 278 lives to the end of the arm at line 297.
ButtonsGuard == "poller"

\* The match of lines 267-305 up to the first callback: the lock is taken
\* (not for a wheel report that is not Relative), the pressed set is replaced
\* and the callbacks to make are lined up.
Dispatch ==
    /\ pc = "dispatch"
    /\ \/ /\ report.kind = "Wheel"
          /\ ForwardsWheel(report.mode)
          /\ lock = "free"
          /\ lock' = "poller"
          /\ cb_ref' = on_wheel_change
          /\ pending' = IF on_wheel_change = "None" THEN <<>>
                        ELSE << Call(on_wheel_change, "wheel", "", FALSE,
                                     report.value, FALSE, 0) >>
          /\ pc' = "callbacks"
          /\ UNCHANGED <<pressed_buttons, prev_pressed>>
       \/ /\ report.kind = "Wheel"
          /\ ~ForwardsWheel(report.mode)
          /\ pc' = "loop_top"
          /\ UNCHANGED <<lock, cb_ref, pending, pressed_buttons, prev_pressed>>
       \/ /\ report.kind = "Buttons"
          /\ lock = "free"
          /\ lock' = ButtonsGuard
          /\ prev_pressed' = pressed_buttons
          /\ pressed_buttons' = StoredButtons(pressed_buttons, report.buttons)
          /\ cb_ref' = on_button_change
          /\ pending' = IF on_button_change = "None" THEN <<>>
                        ELSE LET ev == ButtonEvents(pressed_buttons, report.buttons)
                             IN  [i \in 1..Len(ev) |->
                                    ButtonCall(on_button_change, ev[i][1], ev[i][2])]
          /\ pc' = "callbacks"
       \/ /\ report.kind = "Battery"
          /\ lock = "free"
          /\ lock' = "poller"
          /\ cb_ref' = on_battery_info
          /\ pending' = IF on_battery_info = "None" THEN <<>>
                        ELSE << Call(on_battery_info, "battery", "", FALSE, 0,
                                     report.charging, report.level) >>
          /\ pc' = "callbacks"
          /\ UNCHANGED <<pressed_buttons, prev_pressed>>
    /\ UNCHANGED <<button_led, wheel_led, on_wheel_change, on_button_change,
                 on_battery_info, initial_auth, auth_step, challenge,
                 auth_time, last_button_led, last_wheel_led, report, elapsed,
                 ticks, closed, dev_button_led, dev_wheel_led, io_log, calls,
                 auth_failed, last_auth_elapsed, last_interval,
                 reauth_triggered, latest_buttons, b_writes, w_writes,
                 polled_closed,
                 session, dec_bytes, dec_result, last_set, replaced>>

\* OnRelock for a mutex that its owner may lock again.
OnRelock_Reentrant == "callbacks"

\* Where the poller is when a callback it runs calls inner.lock(): the poller
\* holds the std::sync::Mutex, which no thread can lock twice, so the call
\* never returns and the thread waits in it for good.
OnRelock == "blocked"

\* One call of the user's callback, made with the lock held.  A callback that
\* calls a method of the SpeedEditor does not return.
InvokeCallback ==
    /\ pc = "callbacks"
    /\ pending # <<>>
    /\ calls' = Append(calls, Head(pending))
    /\ pending' = Tail(pending)
    /\ pc' = IF Reenters(Head(pending).cb) THEN OnRelock ELSE pc
    /\ UNCHANGED <<pressed_buttons, button_led, wheel_led, on_wheel_change,
                 on_button_change, on_battery_info, lock, initial_auth,
                 auth_step, challenge, auth_time, last_button_led,
                 last_wheel_led, report, prev_pressed, cb_ref, elapsed,
                 ticks, closed, dev_button_led, dev_wheel_led, io_log,
                 auth_failed, last_auth_elapsed, last_interval,
                 reauth_triggered, latest_buttons, b_writes, w_writes,
                 polled_closed,
                 session, dec_bytes, dec_result, last_set, replaced>>

\* The end of the match arm: the guard is dropped and the loop goes round.
DispatchDone ==
    /\ pc = "callbacks"
    /\ pending = <<>>
    /\ lock' = "free"
    /\ pc' = "loop_top"
    /\ UNCHANGED <<pressed_buttons, button_led, wheel_led, on_wheel_change,
                 on_button_change, on_battery_info, initial_auth, auth_step,
                 challenge, auth_time, last_button_led, last_wheel_led,
                 report, prev_pressed, cb_ref, pending, elapsed, ticks,
                 closed, dev_button_led, dev_wheel_led, io_log, calls,
                 auth_failed, last_auth_elapsed, last_interval,
                 reauth_triggered, latest_buttons, b_writes, w_writes,
                 polled_closed,
                 session, dec_bytes, dec_result, last_set, replaced>>

\* -------------------------------------------------------- application thread

\* StoreCallback with a slot that is written only while it is empty.
StoreCallback_KeepFirst(old, f) == IF old = "None" THEN f ELSE old

\* What a setter stores in its slot: Some(Box::new(f)), whatever it held.
StoreCallback(old, f) == f

\* set_on_wheel_change (also on_wheel_change): lock, store Some(f), unlock.
SetOnWheelChange(f) ==
    /\ session = "Ok"
    /\ lock = "free"
    /\ on_wheel_change' = StoreCallback(on_wheel_change, f)
    /\ last_set' = [last_set EXCEPT !.wheel = f]
    /\ replaced' = IF on_wheel_change \notin {"None", f}
                   THEN Replaced("wheel", on_wheel_change)
                   ELSE replaced
    /\ UNCHANGED <<pressed_buttons, button_led, wheel_led, on_button_change,
                 on_battery_info, lock, pc, initial_auth, auth_step,
                 challenge, auth_time, last_button_led, last_wheel_led,
                 report, prev_pressed, cb_ref, pending, elapsed, ticks,
                 closed, dev_button_led, dev_wheel_led, io_log, calls,
                 auth_failed, last_auth_elapsed, last_interval,
                 reauth_triggered, latest_buttons, b_writes, w_writes,
                 polled_closed,
                 session, dec_bytes, dec_result>>

\* set_on_button_change (also on_button_change): lock, store Some(f), unlock.
SetOnButtonChange(f) ==
    /\ session = "Ok"
    /\ lock = "free"
    /\ on_button_change' = StoreCallback(on_button_change, f)
    /\ last_set' = [last_set EXCEPT !.button = f]
    /\ replaced' = IF on_button_change \notin {"None", f}
                   THEN Replaced("button", on_button_change)
                   ELSE replaced
    /\ UNCHANGED <<pressed_buttons, button_led, wheel_led, on_wheel_change,
                 on_battery_info, lock, pc, initial_auth, auth_step,
                 challenge, auth_time, last_button_led, last_wheel_led,
                 report, prev_pressed, cb_ref, pending, elapsed, ticks,
                 closed, dev_button_led, dev_wheel_led, io_log, calls,
                 auth_failed, last_auth_elapsed, last_interval,
                 reauth_triggered, latest_buttons, b_writes, w_writes,
                 polled_closed,
                 session, dec_bytes, dec_result>>

\* set_on_battery_info (also on_battery_info): lock, store Some(f), unlock.
SetOnBatteryInfo(f) ==
    /\ session = "Ok"
    /\ lock = "free"
    /\ on_battery_info' = StoreCallback(on_battery_info, f)
    /\ last_set' = [last_set EXCEPT !.battery = f]
    /\ replaced' = IF on_battery_info \notin {"None", f}
                   THEN Replaced("battery", on_battery_info)
                   ELSE replaced
    /\ UNCHANGED <<pressed_buttons, button_led, wheel_led, on_wheel_change,
                 on_button_change, lock, pc, initial_auth, auth_step,
                 challenge, auth_time, last_button_led, last_wheel_led,
                 report, prev_pressed, cb_ref, pending, elapsed, ticks,
                 closed, dev_button_led, dev_wheel_led, io_log, calls,
                 auth_failed, last_auth_elapsed, last_interval,
                 reauth_triggered, latest_buttons, b_writes, w_writes,
                 polled_closed,
                 session, dec_bytes, dec_result>>

\* set_button_led: lock, store the target, unlock.
SetButtonLed(led) ==
    /\ session = "Ok"
    /\ lock = "free"
    /\ button_led' = led
    /\ b_writes' = IF led = button_led THEN b_writes ELSE 0
    /\ UNCHANGED <<pressed_buttons, wheel_led, on_wheel_change,
                 on_button_change, on_battery_info, lock, pc, initial_auth,
                 auth_step, challenge, auth_time, last_button_led,
                 last_wheel_led, report, prev_pressed, cb_ref, pending,
                 elapsed, ticks, closed, dev_button_led, dev_wheel_led,
                 io_log, calls, auth_failed, last_auth_elapsed,
                 last_interval, reauth_triggered, latest_buttons, w_writes,
                 polled_closed,
                 session, dec_bytes, dec_result, last_set, replaced>>

\* set_wheel_led: lock, store the target, unlock.
SetWheelLed(led) ==
    /\ session = "Ok"
    /\ lock = "free"
    /\ wheel_led' = led
    /\ w_writes' = IF led = wheel_led THEN w_writes ELSE 0
    /\ UNCHANGED <<pressed_buttons, button_led, on_wheel_change,
                 on_button_change, on_battery_info, lock, pc, initial_auth,
                 auth_step, challenge, auth_time, last_button_led,
                 last_wheel_led, report, prev_pressed, cb_ref, pending,
                 elapsed, ticks, closed, dev_button_led, dev_wheel_led,
                 io_log, calls, auth_failed, last_auth_elapsed,
                 last_interval, reauth_triggered, latest_buttons, b_writes,
                 polled_closed,
                 session, dec_bytes, dec_result, last_set, replaced>>

\* is_button_pressed: what it returns when it gets the lock.
is_button_pressed(button) == Contains(pressed_buttons, button)

\* pressed_buttons(): the copy it returns when it gets the lock.
pressed_buttons_copy == pressed_buttons

\* get_button_led and get_wheel_led.
get_button_led == button_led

get_wheel_led == wheel_led

\* ------------------------------------------------------------- environment

\* Time passes: auth_instant.elapsed() grows.
Tick ==
    /\ ticks < MaxTicks
    /\ \E d \in TickSteps : elapsed' = elapsed + d
    /\ ticks' = ticks + 1
    /\ UNCHANGED <<pressed_buttons, button_led, wheel_led, on_wheel_change,
                 on_button_change, on_battery_info, lock, pc, initial_auth,
                 auth_step, challenge, auth_time, last_button_led,
                 last_wheel_led, report, prev_pressed, cb_ref, pending,
                 closed, dev_button_led, dev_wheel_led, io_log, calls,
                 auth_failed, last_auth_elapsed, last_interval,
                 reauth_triggered, latest_buttons, b_writes, w_writes,
                 polled_closed,
                 session, dec_bytes, dec_result, last_set, replaced>>

\* The transport handle is closed (the device goes away): from now on every
\* transport call fails.
CloseTransport ==
    /\ ~closed
    /\ closed' = TRUE
    /\ UNCHANGED <<pressed_buttons, button_led, wheel_led, on_wheel_change,
                 on_button_change, on_battery_info, lock, pc, initial_auth,
                 auth_step, challenge, auth_time, last_button_led,
                 last_wheel_led, report, prev_pressed, cb_ref, pending,
                 elapsed, ticks, dev_button_led, dev_wheel_led, io_log,
                 calls, auth_failed, last_auth_elapsed, last_interval,
                 reauth_triggered, latest_buttons, b_writes, w_writes,
                 polled_closed,
                 session, dec_bytes, dec_result, last_set, replaced>>

\* ------------------------------------------------------------ specification

PollerNext ==
    \/ AuthSend
    \/ AuthGet
    \/ LoopTop
    \/ LedLock
    \/ LedButton
    \/ LedWheel
    \/ LedUnlock
    \/ Poll
    \/ Dispatch
    \/ InvokeCallback
    \/ DispatchDone

AppNext ==
    \/ \E f \in Callbacks : SetOnWheelChange(f)
    \/ \E f \in Callbacks : SetOnButtonChange(f)
    \/ \E f \in Callbacks : SetOnBatteryInfo(f)
    \/ \E led \in AppButtonLeds : SetButtonLed(led)
    \/ \E led \in AppWheelLeds : SetWheelLed(led)

EnvNext ==
    \/ Tick
    \/ CloseTransport

Next == PollerNext \/ AppNext \/ EnvNext

\* The whole system.
Spec == Init /\ [][Next]_vars

\* The poller with an application that registers callbacks, a clock and a
\* transport that may be closed; the LED targets stay at their defaults.
SessionNext ==
    \/ PollerNext
    \/ \E f \in Callbacks : SetOnWheelChange(f)
    \/ \E f \in Callbacks : SetOnButtonChange(f)
    \/ \E f \in Callbacks : SetOnBatteryInfo(f)
    \/ Tick
    \/ CloseTransport

SpecSession == Init /\ [][SessionNext]_vars

\* The poller with an application that sets LED targets and registers a
\* button callback, and a transport that may be closed.
LedNext ==
    \/ PollerNext
    \/ \E f \in Callbacks : SetOnButtonChange(f)
    \/ \E led \in AppButtonLeds : SetButtonLed(led)
    \/ \E led \in AppWheelLeds : SetWheelLed(led)
    \/ CloseTransport

SpecLed == Init /\ [][LedNext]_vars

\* The poller on a device that delivers DispatchSamples, with an application
\* that registers callbacks.
DispatchNext ==
    \/ AuthSend
    \/ AuthGet
    \/ LoopTop
    \/ LedLock
    \/ LedButton
    \/ LedWheel
    \/ LedUnlock
    \/ PollDispatchSamples
    \/ Dispatch
    \/ InvokeCallback
    \/ DispatchDone
    \/ \E f \in Callbacks : SetOnWheelChange(f)
    \/ \E f \in Callbacks : SetOnButtonChange(f)
    \/ \E f \in Callbacks : SetOnBatteryInfo(f)

SpecDispatch == Init /\ [][DispatchNext]_vars

\* The poller on a device that replies with HandshakeReplies, and a clock.
HandshakeNext ==
    \/ AuthSend
    \/ AuthGetHandshakeReplies
    \/ LoopTop
    \/ LedLock
    \/ LedButton
    \/ LedWheel
    \/ LedUnlock
    \/ Poll
    \/ Dispatch
    \/ InvokeCallback
    \/ DispatchDone
    \/ \E f \in Callbacks : SetOnButtonChange(f)
    \/ Tick

SpecHandshake == Init /\ [][HandshakeNext]_vars

\* One handshake, with a device that presents AuthChallenges.
ResponseNext ==
    \/ AuthSend
    \/ AuthGetChallengeReplies

SpecResponse == Init /\ [][ResponseNext]_vars

\* SpeedEditor::new, which may fail, and after it the poller with an
\* application that registers a callback and sets a LED target.
NewNext ==
    \/ New
    \/ PollerNext
    \/ \E f \in Callbacks : SetOnWheelChange(f)
    \/ \E led \in AppButtonLeds : SetButtonLed(led)

SpecNew == InitNew /\ [][NewNext]_vars

\* The poller with an application one of whose callbacks calls back into the
\* SpeedEditor.  The poller is a thread of its own, which the scheduler lets
\* run whenever it can.
ReentryNext ==
    \/ PollerNext
    \/ \E f \in ReentryCallbacks : SetOnWheelChange(f)
    \/ \E f \in ReentryCallbacks : SetOnButtonChange(f)
    \/ \E f \in ReentryCallbacks : SetOnBatteryInfo(f)

SpecReentry == Init /\ [][ReentryNext]_vars /\ WF_vars(PollerNext)

\* The poller with an application that registers callbacks over one another.
CallbacksNext ==
    \/ PollerNext
    \/ \E f \in TwoCallbacks : SetOnWheelChange(f)
    \/ \E f \in TwoCallbacks : SetOnButtonChange(f)
    \/ \E f \in TwoCallbacks : SetOnBatteryInfo(f)

SpecCallbacks == Init /\ [][CallbacksNext]_vars

\* The poller with an application that registers button callbacks over one
\* another and sets LED targets.
BatchNext ==
    \/ PollerNext
    \/ \E f \in TwoCallbacks : SetOnButtonChange(f)
    \/ \E led \in AppButtonLeds : SetButtonLed(led)
    \/ \E led \in AppWheelLeds : SetWheelLed(led)

SpecBatch == Init /\ [][BatchNext]_vars

\* ------------------------------------------------------------------ claims

\* The last element of a non-empty sequence.
Last(s) == s[Len(s)]

\* The poller has taken the report of this iteration through the match of
\* lines 267-305, at least up to its first callback.
Dispatched == pc \in {"callbacks", "loop_top"} /\ report.kind # "None"

\* The calls the claim expects for a Buttons report: false for the buttons of
\* prev that new does not hold, then true for the buttons of new.
C1_Expected(cb, prev, new) ==
    LET rel == SelectSeq(prev, LAMBDA b : \A j \in 1..Len(new) : new[j] # b)
    IN  [i \in 1..(Len(rel) + Len(new)) |->
           IF i <= Len(rel)
           THEN Call(cb, "button", rel[i], FALSE, 0, FALSE, 0)
           ELSE Call(cb, "button", new[i - Len(rel)], TRUE, 0, FALSE, 0)]

\* C1: for a decoded Buttons report handled while a button-change callback is
\* registered, the calls of the batch are (b, false) for each button of the
\* previously stored set that is absent from the new list, then (b, true)
\* for each button of the new list in wire order; releases come before
\* presses, and no call is made for a button of neither set.
C1_ButtonBatch ==
    (Dispatched /\ report.kind = "Buttons" /\ cb_ref # "None") =>
        /\ calls \o pending = C1_Expected(cb_ref, prev_pressed, report.buttons)
        /\ pc = "loop_top" => pending = <<>>
        /\ \A i, j \in 1..Len(calls) :
             (i < j /\ calls[i].pressed) => calls[j].pressed
        /\ \A i \in 1..Len(calls) :
             \/ Contains(prev_pressed, calls[i].button)
             \/ Contains(report.buttons, calls[i].button)

\* C1's case: with SmartInsert and Append held, a report of Append and
\* RippleOverwrite has been handled.
C1_Witness ==
    /\ pc = "loop_top"
    /\ calls = << Call("f1", "button", "SmartInsert", FALSE, 0, FALSE, 0),
                  Call("f1", "button", "Append", TRUE, 0, FALSE, 0),
                  Call("f1", "button", "RippleOverwrite", TRUE, 0, FALSE, 0) >>

\* C2: outside the handling of a Buttons report, the stored pressed set is
\* the button list of the latest decoded Buttons report (empty before the
\* first), with or without a button-change callback; is_button_pressed and
\* pressed_buttons() answer from it.
C2_PressedIsLatest ==
    ~(pc = "dispatch" /\ report.kind = "Buttons") =>
        /\ pressed_buttons = latest_buttons
        /\ pressed_buttons_copy = latest_buttons
        /\ \A b \in {"SmartInsert", "Append", "RippleOverwrite", "CloseUp"} :
             is_button_pressed(b) <=> (\E i \in 1..Len(latest_buttons) : latest_buttons[i] = b)

\* C2's case: a Buttons report was stored with no callback registered, and a
\* later report that is no Buttons report has left it in place.
C2_Witness ==
    /\ Dispatched
    /\ report.kind = "Battery"
    /\ on_button_change = "None"
    /\ pressed_buttons = <<"Append", "RippleOverwrite">>

\* C3: in every iteration the handshake is re-run exactly when the time since
\* the last successful authentication is at least its interval less 5 seconds;
\* so it is not run again in the iteration after a successful
\* re-authentication.  Stated for the iterations whose last successful
\* authentication was a periodic one (the iterations before it are C4's).
C3_ReauthWhenDue ==
    [][(/\ pc = "loop_top"
        /\ pc' # "loop_top"
        /\ reauth_triggered
        /\ last_interval >= AuthMargin)
       => ((pc' = "authenticate")
             <=> (elapsed - last_auth_elapsed >= last_interval - AuthMargin))]_vars

\* C4: the interval v the first handshake returned decides when the first
\* re-authentication is due: at elapsed >= v - 5, for v of at least 5.
C4_InitialIntervalUsed ==
    [][(/\ pc = "loop_top"
        /\ pc' # "loop_top"
        /\ ~reauth_triggered
        /\ last_interval >= AuthMargin)
       => ((pc' = "authenticate") <=> (elapsed >= last_interval - AuthMargin))]_vars

\* C5: once a handshake, the first or a periodic one, has failed, the poller
\* has stopped and stays stopped: no callback is called, the pressed set does
\* not change and no transport call is issued.
C5_AuthFailureIsFinal ==
    [][auth_failed =>
         /\ pc = "stopped"
         /\ pc' = "stopped"
         /\ lock = "free"
         /\ calls' = calls
         /\ pending' = pending
         /\ pressed_buttons' = pressed_buttons
         /\ io_log' = io_log
         /\ dev_button_led' = dev_button_led
         /\ dev_wheel_led' = dev_wheel_led]_vars

\* C5's case: a periodic handshake failed with a callback registered and
\* buttons held, and the application has acted since.
C5_Witness ==
    /\ auth_failed
    /\ reauth_triggered
    /\ pressed_buttons # <<>>
    /\ on_button_change = "f1"
    /\ on_wheel_change = "f1"
    /\ closed

\* The feature report calls among the transport calls of this iteration.
C6_AuthOps ==
    SelectSeq(io_log,
              LAMBDA e : e.op \in {"send_feature_report", "get_feature_report"})

\* Step i of a handshake succeeded: the call returned, and a reply is 10 bytes
\* long and starts with [0x06, 0x00], [0x06, 0x02] or [0x06, 0x04].
C6_StepOk(e, i) ==
    /\ e.ok
    /\ (i \in {2, 4, 6}) =>
          /\ Len(e.data) >= 10
          /\ e.data[1] = 6
          /\ e.data[2] = i - 2

\* Step i of the fixed sequence, for the calls a made before it.
C6_StepIs(a, i) ==
    CASE i = 1 -> a[i].op = "send_feature_report"
                  /\ a[i].data = <<6, 0, 0, 0, 0, 0, 0, 0, 0, 0>>
      [] i = 3 -> a[i].op = "send_feature_report"
                  /\ a[i].data = <<6, 1, 0, 0, 0, 0, 0, 0, 0, 0>>
      [] i = 5 -> a[i].op = "send_feature_report"
                  /\ a[i].data = <<6, 3>> \o bmd_kbd_auth(SubSeq(a[2].data, 3, 10))
      [] OTHER -> a[i].op = "get_feature_report"

\* C6: the transport calls of one handshake are a prefix of send reset, get,
\* send challenge, get, send response, get; every call before the last one
\* succeeded, and a failed call ends the attempt with an error.
C6_HandshakePrefix ==
    LET a == C6_AuthOps
    IN  /\ Len(a) <= 6
        /\ \A i \in 1..Len(a) : C6_StepIs(a, i)
        /\ \A i \in 1..Len(a) : i < Len(a) => C6_StepOk(a[i], i)
        /\ (Len(a) > 0 /\ ~C6_StepOk(a[Len(a)], Len(a)))
              => (auth_failed /\ pc = "stopped")
        /\ pc = "authenticate" => auth_step = Len(a) + 1

\* C6's case: the keyboard's reply at step 4 came back with the wrong header
\* and the attempt ended there.
C6_Witness ==
    /\ Len(C6_AuthOps) = 4
    /\ C6_AuthOps[4].ok
    /\ C6_AuthOps[4].data = <<6, 0, 1, 2, 3, 4, 5, 6, 7, 8>>
    /\ auth_failed

\* The transport call the poller has just issued, in a step that issued one.
Issued(log, log2) == Len(log2) = Len(log) + 1

\* C7: a LED step issues a button LED write exactly when the button_led
\* target differs from the value last pushed (or none was pushed), and a
\* wheel LED write likewise; so a target that stays the same, however often
\* it is set again, is written at most once.
C7_LedWriteIffChanged ==
    [][/\ (pc = "led_button" /\ pc' # "led_button") =>
            ((Issued(io_log, io_log') /\ Last(io_log').op = "write"
                                     /\ Head(Last(io_log').data) = 2)
               <=> (last_button_led = "None" \/ last_button_led # button_led))
       /\ (pc = "led_wheel" /\ pc' # "led_wheel") =>
            ((Issued(io_log, io_log') /\ Last(io_log').op = "write"
                                     /\ Head(Last(io_log').data) = 4)
               <=> (last_wheel_led = "None" \/ last_wheel_led # wheel_led))
       /\ (pc \notin {"led_button", "led_wheel"} /\ Issued(io_log, io_log'))
            => Last(io_log').op # "write"
       /\ b_writes' <= 1
       /\ w_writes' <= 1]_vars

\* C7's case: the Cam1 target was written once in an earlier iteration and
\* has not changed since, and this iteration's LED step has written nothing.
C7_Witness ==
    /\ pc = "led_unlock"
    /\ button_led = "Cam1"
    /\ b_writes = 1
    /\ w_writes = 1
    /\ io_log = <<>>

\* The bytes on the wire for the LED targets the application sets.
C8_ButtonWire(led) == IF led = "Cam1" THEN <<2, 0, 64, 0, 0>> ELSE <<2, 0, 0, 0, 0>>

C8_WheelWire(led) == IF led = "Jog" THEN <<4, 1>> ELSE <<4, 0>>

\* C8: when the LED step of a running loop is through, the targets the
\* application last set are the values last pushed, and the device has been
\* written their encodings: a change is pushed by the next LED step.
C8_LedConverges ==
    pc = "led_unlock" =>
        /\ last_button_led = get_button_led
        /\ last_wheel_led = get_wheel_led
        /\ dev_button_led = C8_ButtonWire(button_led)
        /\ dev_wheel_led = C8_WheelWire(wheel_led)

\* C8's case: after a first push of Off, the application set Cam1 and Jog and
\* this LED step has written both.
C8_Witness ==
    /\ pc = "led_unlock"
    /\ io_log = << IoOp("write", <<2, 0, 64, 0, 0>>, TRUE),
                   IoOp("write", <<4, 1>>, TRUE) >>
    /\ last_button_led = "Cam1"
    /\ last_wheel_led = "Jog"

\* A poll whose read failed, timed out or brought bytes that do not decode.
C9_FailedPoll(e) ==
    /\ e.op = "read_timeout"
    /\ \/ ~e.ok
       \/ Len(e.data) = 0
       \/ ReportTryFrom(e.data).kind = "Err"

\* C9: a poll that times out, fails or reads bytes that do not decode does
\* not end the loop: the next iteration follows, no callback is called and
\* the pressed set is unchanged.
C9_PollFailureContinues ==
    [][(pc = "poll" /\ pc' # "poll" /\ C9_FailedPoll(Last(io_log'))) =>
         /\ pc' = "loop_top"
         /\ calls' = <<>>
         /\ pending' = <<>>
         /\ report' = NoReport
         /\ lock' = "free"
         /\ pressed_buttons' = pressed_buttons]_vars

\* C9's case: with buttons held and a button callback registered, a report
\* with an unmapped button code was read and the loop is at its next
\* iteration.
C9_Witness ==
    /\ pc = "loop_top"
    /\ io_log # <<>>
    /\ Last(io_log) = IoOp("read_timeout",
                           <<4, 18, 0, 1, 0, 0, 0, 0, 0, 0, 0, 0, 0>>, TRUE)
    /\ on_button_change = "f1"
    /\ pressed_buttons = <<"SmartInsert", "Append">>
    /\ calls = <<>>

\* C10 as stated: once the transport is closed, the next transport call the
\* loop issues fails and the loop ends.
C10_ClosedEndsLoop ==
    [][(closed /\ Issued(io_log, io_log')) =>
         (~Last(io_log').ok /\ pc' = "stopped")]_vars

\* C10 amended: once the transport is closed, every transport call the loop
\* issues fails; a failed handshake call or LED write ends the loop, a failed
\* read does not: the loop goes on to its next iteration.
C10_ClosedEndsLoopAtWrite ==
    [][(closed /\ Issued(io_log, io_log')) =>
         /\ ~Last(io_log').ok
         /\ Last(io_log').op # "read_timeout" => pc' = "stopped"
         /\ Last(io_log').op = "read_timeout" => pc' = "loop_top"]_vars

\* C10's case: the loop polled the closed transport, went on, and ended at
\* the handshake that fell due later.
C10_Witness ==
    /\ polled_closed
    /\ closed
    /\ pc = "stopped"
    /\ auth_failed

\* The buffer the poll of this iteration read.
PolledBytes == Last(io_log).data

\* C11: a polled wheel report whose mode byte is 0x00 or 0x02 makes exactly
\* one call, of the registered wheel-change callback, with the signed 32-bit
\* value of bytes 2..5; a wheel report in another mode makes no call, and no
\* wheel report makes a call of another callback.
C11_WheelDispatch ==
    (Dispatched /\ report.kind = "Wheel") =>
        /\ pc = "loop_top" => pending = <<>>
        /\ pc = "callbacks" => cb_ref = on_wheel_change
        /\ calls \o pending =
             IF PolledBytes[2] \in {0, 2} /\ cb_ref # "None"
             THEN << Call(cb_ref, "wheel", "", FALSE,
                          I32FromLe(PolledBytes[3], PolledBytes[4],
                                    PolledBytes[5], PolledBytes[6]),
                          FALSE, 0) >>
             ELSE <<>>

\* C11's case: the report [0x03, 0x02, 0xfb, 0xff, 0xff, 0xff, 0x00] has been
\* handled and the callback was called once, with -5.
C11_Witness ==
    /\ pc = "loop_top"
    /\ PolledBytes = <<3, 2, 251, 255, 255, 255, 0>>
    /\ calls = << Call("f1", "wheel", "", FALSE, -5, FALSE, 0) >>

\* C12: a polled 3-byte battery report [0x07, c, l] is dispatched as a battery
\* report and makes exactly one call, of the registered battery-info
\* callback, with charging = (c = 0x01) and level = l; with no battery
\* callback registered it makes no call.
C12_BatteryDispatch ==
    /\ (/\ pc \in {"dispatch", "callbacks", "loop_top"}
        /\ io_log # <<>>
        /\ Last(io_log).ok
        /\ Len(PolledBytes) = 3
        /\ PolledBytes[1] = 7) => report.kind = "Battery"
    /\ (Dispatched /\ report.kind = "Battery") =>
          /\ pc = "loop_top" => pending = <<>>
          /\ pc = "callbacks" => cb_ref = on_battery_info
          /\ calls \o pending =
               IF cb_ref = "None" THEN <<>>
               ELSE << Call(cb_ref, "battery", "", FALSE, 0,
                            PolledBytes[2] = 1, PolledBytes[3]) >>

\* C12's case: the report [0x07, 0x02, 0xc8] has been handled and the callback
\* was called once, with charging false and level 200.
C12_Witness ==
    /\ pc = "loop_top"
    /\ PolledBytes = <<7, 2, 200>>
    /\ calls = << Call("f1", "battery", "", FALSE, 0, FALSE, 200) >>

\* C13: the level passed to the battery-info callback is a percentage, a
\* value of 0..100.
C13_LevelIsPercentage ==
    \A i \in 1..Len(calls) :
        calls[i].ev = "battery" => calls[i].level \in 0..100

\* C14: no transport call (a feature report sent or read, a LED write, an
\* input report read) is made while the lock on Inner is held, so a method of
\* the SpeedEditor never waits for one.
C14_NoLockAcrossIo ==
    [][Issued(io_log, io_log') => lock = "free"]_vars

\* A step in which the poller calls a callback.
Calling == Len(calls') = Len(calls) + 1

\* C15: every callback is called by the poller with the lock on Inner held.
\* A callback that calls a method of the SpeedEditor never gets the lock: the
\* poller stays in that call for good, holding the lock, so that Inner never
\* changes again and nothing more is called, read or written.  A callback that
\* calls no such method returns, and the poller comes to its next iteration.
C15_CallbackUnderLock ==
    /\ [][/\ Calling => (lock = "poller" /\ lock' = "poller")
          /\ (Calling /\ Reenters(Last(calls').cb)) => pc' = "blocked"
          /\ (Calling /\ ~Reenters(Last(calls').cb)) => pc' = "callbacks"
          /\ pc = "blocked" =>
                /\ pc' = "blocked"
                /\ lock' = "poller"
                /\ UNCHANGED <<inner_vars, calls, pending, io_log>>]_vars
    /\ [](pc = "blocked" => (calls # <<>> /\ Reenters(Last(calls).cb)))
    /\ ((pc = "callbacks" /\ ~Reenters(cb_ref)) ~> (pc = "loop_top"))

\* C15's case: the button callback called is_button_pressed in its first call
\* of a batch of two, and the poller is stuck there.
C15_Witness ==
    /\ pc = "blocked"
    /\ lock = "poller"
    /\ calls = << Call("reenter", "button", "SmartInsert", TRUE, 0, FALSE, 0) >>
    /\ Len(pending) = 1

\* The callback slot of Inner for an event class.
Registered(class) ==
    CASE class = "wheel" -> on_wheel_change
      [] class = "button" -> on_button_change
      [] class = "battery" -> on_battery_info

\* C16: each event class has one callback slot, and it holds the callback its
\* setter was last called with: every call for an event of a class goes to
\* that callback, so never again to one that was replaced, and a setter
\* leaves the slots of the other two classes alone.
C16_ReplacesCallback ==
    /\ [](\A c \in {"wheel", "button", "battery"} : Registered(c) = last_set[c])
    /\ [][/\ Calling => Last(calls').cb = last_set[Last(calls').ev]
          /\ \A c \in {"wheel", "button", "battery"} :
                last_set'[c] # last_set[c] =>
                  \A d \in {"wheel", "button", "battery"} \ {c} :
                     Registered(d)' = Registered(d)]_vars

\* C16's case: f2 was registered over f1 for button changes, and a batch of
\* three calls has gone to f2.
C16_Witness ==
    /\ pc = "loop_top"
    /\ replaced = Replaced("button", "f1")
    /\ on_button_change = "f2"
    /\ on_wheel_change = "f1"
    /\ calls = << Call("f2", "button", "SmartInsert", FALSE, 0, FALSE, 0),
                  Call("f2", "button", "Append", TRUE, 0, FALSE, 0),
                  Call("f2", "button", "RippleOverwrite", TRUE, 0, FALSE, 0) >>

\* The errors of SpeedEditor::new.
C17_Errors == {"HidApiAlreadyInitialized", "CannotOpenHidDevice", "Io"}

\* C17: when the HID API cannot be initialised or the device cannot be
\* opened, new returns an error: there is no session, no poller thread has
\* been started, no transport call is ever made and nothing happens after.
\* When new succeeds, Inner starts with both LED targets Off, an empty pressed
\* set and no callbacks.
C17_ConstructionFails ==
    /\ [](session \in C17_Errors =>
            /\ pc = "unspawned"
            /\ io_log = <<>>
            /\ calls = <<>>
            /\ dev_button_led = <<>>
            /\ dev_wheel_led = <<>>
            /\ pressed_buttons = Unallocated)
    /\ [][/\ session \in C17_Errors => FALSE
          /\ (session = "None" /\ session' = "Ok") =>
                /\ button_led' = "Off"
                /\ wheel_led' = "Off"
                /\ pressed_buttons' = <<>>
                /\ on_wheel_change' = "None"
                /\ on_button_change' = "None"
                /\ on_battery_info' = "None"
                /\ pc' = "authenticate"
                /\ io_log' = <<>>]_vars

\* C17's case: the device could not be opened.
C17_Witness ==
    /\ session = "CannotOpenHidDevice"
    /\ pc = "unspawned"

\* The codes of the 43 buttons.
C18_KnownCodes ==
    (1..17) \cup (26..31) \cup {34, 37, 38} \cup (43..49) \cup (51..60)

\* Slot i of six of a 13-byte buffer, as a 16-bit little-endian value.
C18_Slot(b, i) == b[2 * i] + 256 * b[2 * i + 1]

\* The slots of a buffer that are not zero, in slot order.
C18_NonZero(b) == SelectSeq([i \in 1..6 |-> C18_Slot(b, i)], LAMBDA c : c # 0)

\* C18: a 13-byte buffer with tag 0x04 whose non-zero slots are all codes of
\* buttons decodes to Buttons with one entry for each non-zero slot, in slot
\* order, and none for a zero slot; with a non-zero slot that is the code of
\* no button the decode fails and returns no list.  A buffer with tag 0x04 of
\* another length is a decode error.
C18_ButtonDecode ==
    (dec_result # NoReport /\ dec_bytes[1] = 4) =>
        IF Len(dec_bytes) # 13 THEN dec_result.kind = "Err"
        ELSE LET nz == C18_NonZero(dec_bytes)
             IN  IF \A j \in 1..Len(nz) : nz[j] \in C18_KnownCodes
                 THEN /\ dec_result.kind = "Buttons"
                      /\ Len(dec_result.buttons) = Len(nz)
                      /\ \A j \in 1..Len(nz) :
                           dec_result.buttons[j] = ButtonTryFrom(nz[j])
                 ELSE /\ dec_result.kind = "Err"
                      /\ dec_result.buttons = <<>>

\* C18's case: the slots SmartInsert, none, Append, StopPlay, none, none have
\* been decoded.
C18_Witness ==
    /\ dec_bytes = <<4, 1, 0, 0, 0, 2, 0, 60, 0, 0, 0, 0, 0>>
    /\ dec_result.kind = "Buttons"
    /\ dec_result.buttons = <<"SmartInsert", "Append", "StopPlay">>

\* No element of the sequence s occurs in it twice.
NoDup(s) == \A i, j \in 1..Len(s) : i # j => s[i] # s[j]

\* C19 as stated: a decoded Buttons list holds no button twice, and so the
\* stored pressed set holds none twice and no batch notifies a button twice
\* with the same pressed value.
C19_NoDuplicates ==
    /\ report.kind = "Buttons" => NoDup(report.buttons)
    /\ NoDup(pressed_buttons)
    /\ NoDup(calls \o pending)

\* C19 amended: the decoder does not de-duplicate: a decoded Buttons list
\* holds a button twice exactly when the buffer holds the same non-zero code
\* in two slots.  When neither the decoded list nor the pressed set stored
\* before it holds a button twice, the stored pressed set holds none twice
\* and no batch notifies a button twice with the same pressed value.
C19_DuplicatesFromWire ==
    /\ (pc \in {"dispatch", "callbacks", "loop_top"} /\ report.kind = "Buttons") =>
          (NoDup(report.buttons) <=> NoDup(C18_NonZero(PolledBytes)))
    /\ (Dispatched /\ report.kind = "Buttons"
          /\ NoDup(report.buttons) /\ NoDup(prev_pressed)) =>
          /\ NoDup(pressed_buttons)
          /\ NoDup(calls \o pending)

\* C19's case: a report with Append in its first and in its third slot has
\* been handled: the pressed set holds Append twice and the callback was told
\* twice that it is pressed.
C19_Witness ==
    /\ pc = "loop_top"
    /\ PolledBytes = <<4, 2, 0, 0, 0, 2, 0, 0, 0, 0, 0, 0, 0>>
    /\ pressed_buttons = <<"Append", "Append">>
    /\ calls = << Call("f1", "button", "Append", TRUE, 0, FALSE, 0),
                  Call("f1", "button", "Append", TRUE, 0, FALSE, 0) >>

\* A feature read that begins with [0x06, sub] and is at least n bytes long.
C20_Begins(e, sub, n) ==
    /\ e.ok
    /\ Len(e.data) >= n
    /\ e.data[1] = 6
    /\ e.data[2] = sub

\* All six calls of a handshake have been made.
C20_Complete == Len(C6_AuthOps) = 6

\* C20 as stated: a handshake succeeds whenever its three sends succeed and
\* its three reads begin with [0x06,0x00] (with the 8 challenge bytes),
\* [0x06,0x02] and [0x06,0x04] (with at least the 2 interval bytes), and it
\* then returns the 16-bit little-endian value of bytes 2..3 of the last read.
C20_HandshakeSucceeds ==
    LET a == C6_AuthOps
    IN  (/\ C20_Complete
         /\ a[1].ok /\ a[3].ok /\ a[5].ok
         /\ C20_Begins(a[2], 0, 10)
         /\ C20_Begins(a[4], 2, 2)
         /\ C20_Begins(a[6], 4, 4)) =>
            /\ ~auth_failed
            /\ last_interval = a[6].data[3] + 256 * a[6].data[4]

\* C20 amended: a handshake whose six calls have all been made succeeds
\* exactly when its three sends succeeded and each of its three reads
\* returned the whole 10-byte buffer, beginning with [0x06,0x00], [0x06,0x02]
\* and [0x06,0x04]; a shorter read fails it.  On success it returns the 16-bit
\* little-endian value of bytes 2..3 of the last read, which a periodic
\* handshake stores as the interval; the payload of the second read is of no
\* account.
C20_HandshakeSucceedsOnFullReads ==
    LET a == C6_AuthOps
    IN  C20_Complete =>
          /\ ~auth_failed <=>
                (/\ a[1].ok /\ a[3].ok /\ a[5].ok
                 /\ C20_Begins(a[2], 0, 10)
                 /\ C20_Begins(a[4], 2, 10)
                 /\ C20_Begins(a[6], 4, 10))
          /\ ~auth_failed =>
                /\ last_interval = a[6].data[3] + 256 * a[6].data[4]
                /\ reauth_triggered => auth_time = last_interval

\* C20's case: a periodic handshake whose second read carried a payload has
\* succeeded and returned the interval 10.
C20_Witness ==
    /\ C20_Complete
    /\ ~auth_failed
    /\ reauth_triggered
    /\ C6_AuthOps[4].data = <<6, 2, 9, 8, 7, 6, 5, 4, 3, 2>>
    /\ C6_AuthOps[6].data = <<6, 4, 10, 0, 0, 0, 0, 0, 0, 0>>
    /\ auth_time = 10

\* ------------------------------------------------------------------- C21

\* challenge & 7 of a challenge given as 8 little-endian bytes.
C21_N(c) == c[1] % 8

\* A 64-bit value rotated right by n bytes: byte i of the result is byte
\* i + n of the argument, counted round.
C21_RorBytes(v, n) == [i \in 1..8 |-> v[((i - 1 + n) % 8) + 1]]

\* The response the claim gives for a challenge.
C21_Response(c) ==
    LET n    == C21_N(c)
        v0   == C21_RorBytes(c, n)
        same == (v0[1] % 2) = ((120 \div (2 ^ n)) % 2)
        v    == IF same THEN v0 ELSE Xor64(v0, C21_RorBytes(v0, 1))
        k    == IF same THEN AUTH_EVEN_TBL[n + 1] ELSE AUTH_ODD_TBL[n + 1]
    IN  Xor64(Xor64(v, And64(C21_RorBytes(v, 1), MASK)), k)

\* Challenges and the responses to them, from the claim's formula evaluated
\* on 64-bit integers.
C21_KnownAnswers ==
    { << <<0, 74, 111, 148, 185, 222, 3, 40>>,
         <<136, 42, 62, 130, 2, 253, 234, 18>> >>,
      << <<8, 77, 114, 151, 188, 225, 6, 43>>,
         <<128, 52, 32, 132, 50, 195, 237, 17>> >>,
      << <<1, 174, 212, 249, 30, 67, 104, 141>>,
         <<184, 233, 25, 244, 8, 218, 23, 141>> >>,
      << <<9, 179, 215, 252, 33, 70, 107, 144>>,
         <<88, 217, 235, 122, 68, 145, 102, 186>> >>,
      << <<2, 20, 56, 94, 131, 168, 205, 242>>,
         <<98, 130, 153, 242, 133, 8, 180, 20>> >>,
      << <<10, 23, 61, 97, 134, 171, 208, 245>>,
         <<127, 54, 5, 161, 134, 202, 104, 143>> >>,
      << <<3, 121, 158, 194, 232, 13, 50, 87>>,
         <<82, 40, 208, 32, 61, 55, 8, 19>> >>,
      << <<11, 124, 161, 199, 235, 16, 53, 90>>,
         <<62, 236, 253, 25, 190, 135, 124, 137>> >>,
      << <<4, 222, 3, 40, 76, 114, 151, 188>>,
         <<74, 101, 221, 38, 14, 145, 9, 48>> >>,
      << <<12, 225, 6, 43, 81, 117, 154, 191>>,
         <<112, 190, 70, 250, 26, 1, 34, 198>> >>,
      << <<5, 67, 104, 141, 178, 214, 252, 33>>,
         <<184, 150, 79, 65, 8, 101, 14, 126>> >>,
      << <<13, 70, 107, 144, 181, 219, 255, 36>>,
         <<62, 149, 17, 122, 218, 198, 85, 134>> >>,
      << <<6, 168, 205, 242, 23, 60, 96, 134>>,
         <<239, 134, 220, 225, 194, 62, 76, 7>> >>,
      << <<14, 171, 208, 245, 26, 63, 101, 137>>,
         <<98, 146, 141, 114, 21, 217, 61, 188>> >>,
      << <<7, 13, 50, 87, 124, 161, 198, 234>>,
         <<52, 3, 49, 195, 0, 171, 56, 17>> >>,
      << <<15, 16, 53, 90, 127, 164, 201, 239>>,
         <<54, 8, 148, 37, 179, 76, 204, 231>> >> }

\* C21: the feature report sent in step 5 of a handshake is [0x06, 0x03]
\* followed by the eight little-endian bytes of the response, and the response
\* is the claim's function of the challenge read in step 2 of that handshake:
\* n = challenge & 7, which lies in 0..7, v the challenge rotated right by n
\* bytes, the even key if the low bit of v equals bit n of 0x78, otherwise v
\* folded with its rotation and the odd key, and v XOR (ror8(v) AND MASK) XOR
\* key.  For the challenges of C21_KnownAnswers it is the listed response.
C21_ResponseOfChallenge ==
    LET a == C6_AuthOps
    IN  Len(a) >= 5 =>
          LET c == SubSeq(a[2].data, 3, 10)
          IN  /\ a[5].op = "send_feature_report"
              /\ Len(a[5].data) = 10
              /\ a[5].data[1] = 6
              /\ a[5].data[2] = 3
              /\ SubSeq(a[5].data, 3, 10) = C21_Response(c)
              /\ \A i \in 3..10 : a[5].data[i] \in 0..255
              /\ C21_N(c) \in 0..7
              /\ \A e \in C21_KnownAnswers :
                   e[1] = c => SubSeq(a[5].data, 3, 10) = e[2]

\* A response was sent for a challenge that takes the odd branch (n = 3, low
\* bit of the rotated value 0 against bit 3 of 0x78, which is 1), and it
\* differs from the challenge.
C21_Witness ==
    LET a == C6_AuthOps
    IN  /\ Len(a) >= 5
        /\ a[5].ok
        /\ SubSeq(a[2].data, 3, 10) = <<3, 121, 158, 194, 232, 13, 50, 87>>
        /\ SubSeq(a[5].data, 3, 10) = <<82, 40, 208, 32, 61, 55, 8, 19>>

\* ------------------------------------------------------------------- C22

\* The step of an iteration a transport call belongs to: 1 the handshake,
\* 2 the button LED write, 3 the wheel LED write, 4 the input-report read.
C22_Phase(e) ==
    CASE e.op \in {"send_feature_report", "get_feature_report"} -> 1
      [] e.op = "write" /\ e.data[1] = 2 -> 2
      [] e.op = "write" /\ e.data[1] = 4 -> 3
      [] e.op = "read_timeout" -> 4

\* The transport calls of this iteration that belong to a step.
C22_OfPhase(ph) == SelectSeq(io_log, LAMBDA e : C22_Phase(e) = ph)

\* C22, before the loop: until the first handshake has succeeded the transport
\* has seen feature reports only, no LED was written, no report was read and
\* no callback was invoked, and the poller is in the handshake or has ended.
C22_NothingBeforeHandshake ==
    initial_auth =>
        /\ pc \in {"authenticate", "stopped"}
        /\ \A i \in 1..Len(io_log) : C22_Phase(io_log[i]) = 1
        /\ b_writes = 0 /\ w_writes = 0
        /\ dev_button_led = <<>> /\ dev_wheel_led = <<>>
        /\ last_button_led = "None" /\ last_wheel_led = "None"
        /\ report = NoReport
        /\ calls = <<>>

\* C22, in the loop: the transport calls of one iteration come in the order
\* handshake, button LED write, wheel LED write, read, with at most one call
\* of each of the last three; the LED block runs with no write or read made
\* yet, the read with the LED block behind it (both LEDs were pushed at least
\* once, in this iteration or before, and every earlier call of the iteration
\* succeeded), and dispatch and callbacks follow a read that returned.
C22_IterationOrder ==
    /\ \A i, j \in 1..Len(io_log) :
         i < j => /\ C22_Phase(io_log[i]) <= C22_Phase(io_log[j])
                  /\ C22_Phase(io_log[j]) > 1
                       => C22_Phase(io_log[i]) < C22_Phase(io_log[j])
    /\ pc = "authenticate" => \A ph \in 2..4 : C22_OfPhase(ph) = <<>>
    /\ pc \in {"led_lock", "led_button"} => \A ph \in 2..4 : C22_OfPhase(ph) = <<>>
    /\ pc = "led_wheel" => \A ph \in 3..4 : C22_OfPhase(ph) = <<>>
    /\ pc \in {"led_unlock", "poll"} => C22_OfPhase(4) = <<>>
    /\ C22_OfPhase(4) # <<>> =>
         /\ last_button_led # "None"
         /\ last_wheel_led # "None"
         /\ \A i \in 1..Len(io_log) :
              C22_Phase(io_log[i]) < 4 => io_log[i].ok
    /\ pc \in {"dispatch", "callbacks"} =>
         /\ io_log # <<>>
         /\ Last(io_log).op = "read_timeout"
         /\ Last(io_log).ok
    /\ calls # <<>> =>
         /\ io_log # <<>>
         /\ Last(io_log).op = "read_timeout"
         /\ Last(io_log).ok

\* C22: nothing but the handshake before the first handshake has succeeded,
\* and in every later iteration re-authentication check, LED block (button
\* before wheel), one poll, dispatch, in this order.
C22_Order == C22_NothingBeforeHandshake /\ C22_IterationOrder

\* An iteration that ran all four steps: a periodic handshake, both LED
\* writes, a read, and a callback invoked for the report read.
C22_Witness ==
    /\ ~initial_auth
    /\ Len(io_log) = 9
    /\ Len(C22_OfPhase(1)) = 6
    /\ C22_Phase(io_log[7]) = 2
    /\ C22_Phase(io_log[8]) = 3
    /\ C22_Phase(io_log[9]) = 4
    /\ calls # <<>>

\* ------------------------------------------------------------------- C23

\* The poller is between the replacement of the pressed set for a Buttons
\* report and the end of that report's callbacks.
C23_InBatch == pc = "callbacks" /\ report.kind = "Buttons"

\* The poller enters the Buttons arm.
C23_Enters == pc = "dispatch" /\ report.kind = "Buttons" /\ pc' = "callbacks"

\* C23: a Buttons report is handled in one critical section.  Entering the
\* arm takes the lock and stores the report's list as the pressed set; until
\* the last callback of the batch has returned the lock stays with the poller
\* and nothing of the shared state changes (no target set, no callback
\* stored, no other pressed set), so no call of the application takes effect
\* between two callbacks; and every callback of the batch goes to the callback
\* that was registered when the arm was entered, which is still the one
\* registered.
C23_BatchAtomic ==
    /\ [](C23_InBatch =>
            /\ lock = "poller"
            /\ pressed_buttons = report.buttons
            /\ cb_ref = on_button_change
            /\ \A i \in 1..Len(calls) : calls[i].cb = cb_ref
            /\ \A i \in 1..Len(pending) : pending[i].cb = cb_ref)
    /\ [][C23_Enters =>
            /\ lock = "free" /\ lock' = "poller"
            /\ pressed_buttons' = report.buttons
            /\ UNCHANGED <<button_led, wheel_led, on_wheel_change,
                           on_button_change, on_battery_info>>]_vars
    /\ [][C23_InBatch =>
            /\ UNCHANGED inner_vars
            /\ UNCHANGED <<last_set, replaced>>
            /\ lock' # lock => pending = <<>> /\ pc' = "loop_top"
            /\ Calling => Last(calls').cb = on_button_change]_vars

\* Between the first and the second callback of a batch, made to a callback
\* that the application registered over another one, after it set a LED target.
C23_Witness ==
    /\ C23_InBatch
    /\ Len(calls) >= 1
    /\ pending # <<>>
    /\ cb_ref = "f2"
    /\ replaced.cb = "f1"
    /\ button_led = "Cam1"
    /\ lock = "poller"

\* ------------------------------------------------------------------- C24

\* C24: the threshold auth_time - 5 of the re-authentication check is computed
\* without 16-bit underflow.  The loop never aborts in the subtraction, and
\* the check at the top of an iteration asks for a handshake exactly when the
\* elapsed seconds have reached the interval less 5 as an integer, so always
\* when the interval is below 5.
C24_NoUnderflow ==
    /\ [](pc # "panicked")
    /\ [][pc = "loop_top" /\ pc' # "loop_top" =>
            (pc' = "authenticate" <=> elapsed >= auth_time - AuthMargin)]_vars

\* ------------------------------------------------------------------- C25

\* The poller has ended on a failed LED write: the last transport call is a
\* write that returned an error.
C25_EndedOnWrite ==
    /\ pc = "stopped"
    /\ io_log # <<>>
    /\ Last(io_log).op = "write"
    /\ ~Last(io_log).ok

\* This step is a button LED write that fails.
C25_ButtonWriteFails ==
    /\ pc = "led_button"
    /\ Issued(io_log, io_log')
    /\ ~Last(io_log').ok

\* C25: a failed LED write ends the session loop.  The step of a failed button
\* LED write ends the poller with the lock free, the last-pushed value and the
\* device as they were; an ended poller makes no transport call, so neither
\* the wheel LED write nor a poll follows; and the application's calls still
\* go through: the lock is free, each LED setter can run, and after it LED get
\* returns the value set.
C25_LedFailureEndsLoop ==
    /\ [](C25_EndedOnWrite =>
            /\ lock = "free"
            /\ \A i \in 1..(Len(io_log) - 1) : io_log[i].ok
            /\ Last(io_log).data[1] = 2 =>
                 /\ C22_OfPhase(3) = <<>>
                 /\ C22_OfPhase(4) = <<>>
                 /\ last_button_led = "None"
                      \/ ButtonLedBuf(last_button_led) # Last(io_log).data
            /\ \A led \in AppButtonLeds : ENABLED SetButtonLed(led)
            /\ \A led \in AppWheelLeds : ENABLED SetWheelLed(led)
            /\ \A f \in Callbacks : ENABLED SetOnButtonChange(f))
    /\ [][C25_ButtonWriteFails =>
            /\ pc' = "stopped"
            /\ lock' = "free"
            /\ UNCHANGED <<last_button_led, last_wheel_led, dev_button_led,
                           dev_wheel_led, inner_vars>>]_vars
    /\ [][pc = "stopped" =>
            /\ pc' = "stopped"
            /\ UNCHANGED <<io_log, calls, lock, last_button_led,
                           last_wheel_led, pressed_buttons>>
            /\ \A led \in AppButtonLeds :
                 SetButtonLed(led) => get_button_led' = led
            /\ \A led \in AppWheelLeds :
                 SetWheelLed(led) => get_wheel_led' = led]_vars

\* The write of the button LED target Off failed, the poller has ended without
\* a wheel LED write, and the application has since set the target Cam1, which
\* LED get returns; the last-pushed value is still none.
C25_Witness ==
    /\ C25_EndedOnWrite
    /\ Last(io_log).data = ButtonLedBuf("Off")
    /\ C22_OfPhase(3) = <<>>
    /\ last_button_led = "None"
    /\ get_button_led = "Cam1"
    /\ on_button_change = "f1"
    /\ ~closed

====
